---- MODULE Spec2Model ----
(***************************************************************************)
(* Early-boot core of hobbyOS (src/src/main.rs): the bump frame allocator  *)
(* over the bootloader's memory map, the heap initializer, the interrupt   *)
(* descriptor table with its two handlers, and kernel_main sequencing them.*)
(***************************************************************************)
EXTENDS Integers, Sequences, FiniteSets, TLC

(* ---------------------------------------------------------------------- *)
(* Bounds of the model                                                     *)
(* ---------------------------------------------------------------------- *)
\* longest memory map explored by the allocator specification
MaxRegions == 2
\* region boundaries are drawn from 0, Granule, ..., MaxUnits * Granule
MaxUnits == 4
\* allocate_frame calls explored by the allocator specification
MaxCalls == 5
\* frames in the Usable region of the memory maps kernel_main is booted with
MaxKernelFrames == 29
\* breakpoint exceptions delivered during one boot
MaxBreakpoints == 1
\* longest memory map init_heap is run on by the heap specification
MaxHeapRegions == 2
\* its region boundaries are 0, PAGE_SIZE, ..., MaxHeapFrames * PAGE_SIZE
MaxHeapFrames == 2
\* init_heap calls made one after the other by the heap specification
MaxHeapCalls == 2

(* ---------------------------------------------------------------------- *)
(* Program constants                                                       *)
(* ---------------------------------------------------------------------- *)
\* .step_by(4096), the size of a Size4KiB frame
PAGE_SIZE == 4096
\* half a frame: region boundaries that are not 4096-aligned
Granule == PAGE_SIZE \div 2
\* Option::None of allocate_frame (frames are natural numbers)
NoFrame == 0 - 1
\* HEAP_START = 0x4444_4444_0000 taken modulo 2^21, the span of one level-1
\* page table: level-1 index 64, offset 0. The higher bits select the same
\* level-4, level-3 and level-2 entries for every page of the heap.
HEAP_START == 262144
\* HEAP_SIZE: 100 KiB
HEAP_SIZE == 100 * 1024
\* entries of one page table
ENTRY_COUNT == 512

VARIABLES
    memory_map,       \* BootInfoFrameAllocator.memory_map: sequence of regions
    next,             \* BootInfoFrameAllocator.next
    returned,         \* results of a client's allocate_frame calls, in order
    phys_mem_offset,  \* boot_info.physical_memory_offset: "Some" or "None"
    pc,               \* position of the running code
    saved_pc,         \* return address pushed for the breakpoint handler
    max_level,        \* log::max_level()
    log,              \* lines printed by SimpleLogger::log, in order
    idt_loads,        \* number of IDT.load() executed
    mapper,           \* "none", or "derived" once init_memory returned
    fa_constructed,   \* BootInfoFrameAllocator::init has run
    tables,           \* page tables present on the heap's translation path
    table_frames,     \* frames map_to took for new page tables
    mapped,           \* level-1 entries in use: page -> [frame, flags]
    page,             \* init_heap: the page the loop is at
    frame,            \* init_heap: the frame allocated for that page
    alloc_attempts,   \* init_heap: allocate_frame calls made for heap pages
    map_attempts,     \* init_heap: map_to calls made
    ih_result,        \* init_heap's result, "none" until it returns
    heap_inits,       \* number of ALLOCATOR.lock().init executed
    heap_allocs,      \* allocations made by test_heap_allocation
    panic_msg,        \* message of the panic in progress, "none" if none
    bp_count,         \* breakpoint exceptions delivered so far
    heap_size,        \* the size init_heap is run with (HEAP_SIZE in kernel_main)
    heap_calls,       \* sizes of the init_heap calls made so far, in order
    allocator_locked  \* the spin lock of ALLOCATOR (LockedHeap) is held

(* ---------------------------------------------------------------------- *)
(* BootInfoFrameAllocator                                                  *)
(* ---------------------------------------------------------------------- *)
\* r.range.start_addr()..r.range.end_addr() : empty when end <= start
RangeLen(r) == IF r.end > r.start THEN r.end - r.start ELSE 0

\* .filter(|r| r.kind == MemoryRegionKind::Usable)
UsableRegions(map) == SelectSeq(map, LAMBDA r : r.kind = "Usable")

\* .flat_map(|r| start..end): the element at 0-based position g of the
\* concatenation of the byte-address ranges, NoFrame past its end
RECURSIVE FlatMapAt(_, _)
FlatMapAt(regs, g) ==
    IF regs = <<>> THEN NoFrame
    ELSE IF g < RangeLen(Head(regs)) THEN Head(regs).start + g
    ELSE FlatMapAt(Tail(regs), g - RangeLen(Head(regs)))

\* number of addresses the flat_map yields
RECURSIVE FlatMapLen(_)
FlatMapLen(regs) ==
    IF regs = <<>> THEN 0 ELSE RangeLen(Head(regs)) + FlatMapLen(Tail(regs))

\* PhysFrame::containing_address: the address aligned down to its frame (mutant: no alignment)
ContainingAddressUnaligned(addr) == addr

\* PhysFrame::containing_address: the address aligned down to its frame
ContainingAddress(addr) == addr - (addr % PAGE_SIZE)

\* usable_frames().nth(n) (mutant: past the end the sequence starts over)
UsableFramesNthWrapping(map, n) ==
    LET len  == FlatMapLen(UsableRegions(map))
        cnt  == (len + PAGE_SIZE - 1) \div PAGE_SIZE
        addr == IF cnt = 0 THEN NoFrame
                ELSE FlatMapAt(UsableRegions(map), (n % cnt) * PAGE_SIZE)
    IN  IF addr = NoFrame THEN NoFrame ELSE ContainingAddress(addr)

\* .step_by(4096) keeps positions 0, 4096, 8192, ... of the flattened
\* sequence; usable_frames().nth(n) is the frame of position n * 4096
UsableFramesNth(map, n) ==
    LET addr == FlatMapAt(UsableRegions(map), n * PAGE_SIZE)
    IN  IF addr = NoFrame THEN NoFrame ELSE ContainingAddress(addr)

\* usable_frames().count(): positions 0, 4096, ... below the flattened length
UsableFramesCount(map) ==
    (FlatMapLen(UsableRegions(map)) + PAGE_SIZE - 1) \div PAGE_SIZE

\* self.next += 1 (mutant: the cursor is left where it is)
NextAfterAllocateStuck(n) == n

\* self.next += 1
NextAfterAllocate(n) == n + 1

(* ---------------------------------------------------------------------- *)
(* Inputs: memory maps                                                     *)
(* ---------------------------------------------------------------------- *)
Addrs == { k * Granule : k \in 0..MaxUnits }

Regions ==
    { [start |-> s, end |-> e, kind |-> k] :
        s \in Addrs, e \in Addrs, k \in {"Usable", "Reserved"} }

WellFormedRegions == { r \in Regions : r.start <= r.end }

MemoryMaps == UNION { [1..n -> WellFormedRegions] : n \in 0..MaxRegions }

(* ---------------------------------------------------------------------- *)
(* Allocator specification: any memory map, successive allocate_frame()    *)
(* ---------------------------------------------------------------------- *)
faVars == <<memory_map, next, returned>>

kernelVars ==
    <<phys_mem_offset, pc, saved_pc, max_level, log, idt_loads, mapper,
      fa_constructed, tables, table_frames, mapped, page, frame,
      alloc_attempts, map_attempts, ih_result, heap_inits, heap_allocs,
      panic_msg, bp_count, heap_size, heap_calls, allocator_locked>>

vars == <<faVars, kernelVars>>

\* the kernel before its entry point has run
NotBooted ==
    /\ pc = "off"
    /\ saved_pc = "none"
    /\ max_level = "Off"
    /\ log = <<>>
    /\ idt_loads = 0
    /\ mapper = "none"
    /\ fa_constructed = FALSE
    /\ table_frames = {}
    /\ page = 0
    /\ frame = NoFrame
    /\ alloc_attempts = 0
    /\ map_attempts = 0
    /\ ih_result = "none"
    /\ heap_inits = 0
    /\ heap_allocs = 0
    /\ panic_msg = "none"
    /\ bp_count = 0
    /\ heap_size = HEAP_SIZE
    /\ heap_calls = <<>>
    /\ allocator_locked = FALSE

\* BootInfoFrameAllocator::init
InitFA ==
    /\ memory_map \in MemoryMaps
    /\ next = 0
    /\ returned = <<>>
    /\ phys_mem_offset = "Some"
    /\ tables = {}
    /\ mapped = {}
    /\ NotBooted

\* one call of allocate_frame() by a client of the allocator
AllocateFrame ==
    /\ Len(returned) < MaxCalls
    /\ returned' = Append(returned, UsableFramesNth(memory_map, next))
    /\ next' = NextAfterAllocate(next)
    /\ UNCHANGED <<memory_map, kernelVars>>

NextFA == AllocateFrame

SpecFA == InitFA /\ [][NextFA]_vars

(* ---------------------------------------------------------------------- *)
(* Logging (SimpleLogger behind the log crate's macros)                    *)
(* ---------------------------------------------------------------------- *)
\* log::Level / LevelFilter as numbers: Off < Error < Warn < Info
LevelNum(l) ==
    CASE l = "Off" -> 0 [] l = "Error" -> 1 [] l = "Warn" -> 2 [] l = "Info" -> 3

\* info!/error!: the record reaches SimpleLogger::log when its level is
\* within max_level; log() prints one line (enabled() is always true)
Emit(lg, filter, level, text) ==
    IF LevelNum(level) <= LevelNum(filter)
    THEN Append(lg, [level |-> level, text |-> text])
    ELSE lg

(* ---------------------------------------------------------------------- *)
(* Page tables: Mapper::map_to on the OffsetPageTable                      *)
(* ---------------------------------------------------------------------- *)
\* Page::containing_address
PageContaining(addr) == addr \div PAGE_SIZE

\* init_heap's page_range: Page::range_inclusive(heap_start_page, heap_end_page)
HeapStartPage == PageContaining(HEAP_START)

\* heap_end_page (mutant: the end is taken one byte past the heap)
HeapEndPagePastEnd == PageContaining(HEAP_START + heap_size)

HeapEndPage == PageContaining(HEAP_START + heap_size - 1)
PageRange == HeapStartPage..HeapEndPage

\* init_heap's flags (mutant: the pages are mapped read-only)
HeapFlagsReadOnly == {"PRESENT"}

\* PageTableFlags::PRESENT | PageTableFlags::WRITABLE
HeapFlags == {"PRESENT", "WRITABLE"}

\* the level-3, level-2 and level-1 tables map_to walks for a page, top down
TablePath(pg) ==
    << <<3, pg \div (ENTRY_COUNT * ENTRY_COUNT * ENTRY_COUNT)>>,
       <<2, pg \div (ENTRY_COUNT * ENTRY_COUNT)>>,
       <<1, pg \div ENTRY_COUNT>> >>

\* map_to's walk: a table that is missing is created in a frame taken from
\* the frame allocator; the walk stops at the first allocation that fails
RECURSIVE CreateTables(_, _, _, _, _)
CreateTables(map, path, tabs, tframes, n) ==
    IF path = <<>>
    THEN [ok |-> TRUE, tables |-> tabs, table_frames |-> tframes, next |-> n]
    ELSE IF Head(path) \in tabs
    THEN CreateTables(map, Tail(path), tabs, tframes, n)
    ELSE LET f == UsableFramesNth(map, n)
         IN  IF f = NoFrame
             THEN [ok |-> FALSE, tables |-> tabs, table_frames |-> tframes,
                   next |-> NextAfterAllocate(n)]
             ELSE CreateTables(map, Tail(path), tabs \cup {Head(path)},
                               tframes \cup {f}, NextAfterAllocate(n))

\* map_to's test of the level-1 entry (mutant: a used entry is overwritten)
PageMappedIgnored(mp, pg) == FALSE

\* map_to's test of the level-1 entry: the page already has a translation
PageMapped(mp, pg) == \E m \in mp : m.page = pg

\* mapper.map_to(page, frame, flags, frame_allocator)
MapTo(map, pg, f, flags, tabs, tframes, mp, n) ==
    LET w == CreateTables(map, TablePath(pg), tabs, tframes, n)
        r == [tables |-> w.tables, table_frames |-> w.table_frames, next |-> w.next]
    IN  IF ~w.ok
        THEN r @@ [result |-> "FrameAllocationFailed", mapped |-> mp]
        ELSE IF PageMapped(mp, pg)
        THEN r @@ [result |-> "PageAlreadyMapped", mapped |-> mp]
        ELSE r @@ [result |-> "Ok",
                   mapped |-> mp \cup {[page |-> pg, frame |-> f, flags |-> flags]}]

MappedPages == { m.page : m \in mapped }

(* ---------------------------------------------------------------------- *)
(* Inputs of a boot: BootInfo and the page tables the bootloader left      *)
(* ---------------------------------------------------------------------- *)
\* frame 0 Reserved, then one Usable region of n whole frames
KernelMaps ==
    { << [start |-> 0, end |-> PAGE_SIZE, kind |-> "Reserved"],
         [start |-> PAGE_SIZE, end |-> PAGE_SIZE + n * PAGE_SIZE, kind |-> "Usable"] >> :
        n \in 0..MaxKernelFrames }

\* the tables already present on the heap's path form a top-down prefix of it
InitialTables ==
    LET path == TablePath(HeapStartPage)
    IN  { { path[i] : i \in 1..k } : k \in 0..3 }

\* a heap page the bootloader had already mapped (to the Reserved frame 0)
PreMapped(pg) == {[page |-> pg, frame |-> 0, flags |-> {"PRESENT"}]}

(* ---------------------------------------------------------------------- *)
(* kernel_main, init_heap, test_heap_allocation                            *)
(* ---------------------------------------------------------------------- *)
Init ==
    /\ NotBooted
    /\ memory_map \in KernelMaps
    /\ phys_mem_offset \in {"Some", "None"}
    /\ \/ tables \in InitialTables /\ mapped = {}
       \/ /\ tables = { TablePath(HeapStartPage)[i] : i \in 1..3 }
          /\ \E pg \in PageRange : mapped = PreMapped(pg)
    /\ next = 0
    /\ returned = <<>>

\* the bootloader jumps to the entry point
Entry ==
    /\ pc = "off"
    /\ pc' = "start"
    /\ UNCHANGED <<heap_size, heap_calls, allocator_locked,
                   faVars, phys_mem_offset, saved_pc, max_level, log, idt_loads,
                   mapper, fa_constructed, tables, table_frames, mapped, page,
                   frame, alloc_attempts, map_attempts, ih_result, heap_inits,
                   heap_allocs, panic_msg, bp_count>>

\* where panic() ends up after its diagnostic (mutant: it returns to the caller)
PanicLoopReturns(from) == from

\* panic(): loop { hlt }
PanicLoop(from) == "fatal_halt"

\* where the breakpoint handler's return leads (mutant: it restarts the kernel)
BreakpointReturnRestarts(sp) == "start"

\* breakpoint_handler returns: iretq to the interrupted instruction stream
BreakpointReturn(sp) == sp

\* `?` on a failed step of init_heap (mutant: the failure only ends the loop)
EarlyReturnIgnored(err) == [pc |-> "heap_allocator_init", result |-> "none"]

\* `?` on a failed step of init_heap: return Err(err) to kernel_main
EarlyReturn(err) == [pc |-> "heap_expect", result |-> err]

\* spin::Mutex::lock (mutant: the lock is never seen free)
SpinLockNeverFree(locked) == FALSE

\* spin::Mutex::lock returns only once the lock is free
SpinLockFree(locked) == ~locked

\* breakpoint_handler, double_fault_handler and panic() only format into the
\* log (mutant: they allocate, which takes the ALLOCATOR lock)
HandlersAllocate == TRUE

\* breakpoint_handler, double_fault_handler and panic() only format into the
\* log: none of them allocates, so none takes the ALLOCATOR lock
HandlersUseAllocator == FALSE

\* the step of `for page in page_range` (mutant: every other page is skipped)
NextPageSkipping(pg) == pg + 2

\* the step of `for page in page_range`
NextPage(pg) == pg + 1

\* .expect(..) on init_heap's result (mutant: the result is discarded)
ExpectIgnored(result) == TRUE

\* .expect(..) on init_heap's result: only Ok(()) lets kernel_main go on
ExpectPasses(result) == result = "Ok"

\* IDT.load() (mutant: the table is built but never loaded)
IdtLoadSkipped(n) == n

\* IDT.load(): lidt with the lazily built table
IdtLoad(n) == n + 1

\* init_logger(): set_logger, then set_max_level(LevelFilter::Info)
InitLogger ==
    /\ pc = "start"
    /\ max_level' = "Info"
    /\ pc' = "boot_log"
    /\ UNCHANGED <<heap_size, heap_calls, allocator_locked,
                   memory_map, next, returned, phys_mem_offset, saved_pc,
                   log, idt_loads, mapper, fa_constructed, tables,
                   table_frames, mapped, page, frame, alloc_attempts,
                   map_attempts, ih_result, heap_inits, heap_allocs,
                   panic_msg, bp_count>>

\* info!("Booting Rust OS...")
BootLog ==
    /\ pc = "boot_log"
    /\ log' = Emit(log, max_level, "Info", "Booting Rust OS...")
    /\ pc' = "idt_load"
    /\ UNCHANGED <<heap_size, heap_calls, allocator_locked,
                   memory_map, next, returned, phys_mem_offset, saved_pc,
                   max_level, idt_loads, mapper, fa_constructed, tables,
                   table_frames, mapped, page, frame, alloc_attempts,
                   map_attempts, ih_result, heap_inits, heap_allocs,
                   panic_msg, bp_count>>

\* init_idt: IDT.load()
InitIdtLoad ==
    /\ pc = "idt_load"
    /\ idt_loads' = IdtLoad(idt_loads)
    /\ pc' = "idt_log"
    /\ UNCHANGED <<heap_size, heap_calls, allocator_locked,
                   memory_map, next, returned, phys_mem_offset, saved_pc,
                   max_level, log, mapper, fa_constructed, tables,
                   table_frames, mapped, page, frame, alloc_attempts,
                   map_attempts, ih_result, heap_inits, heap_allocs,
                   panic_msg, bp_count>>

\* init_idt: info!("IDT initialized")
InitIdtLog ==
    /\ pc = "idt_log"
    /\ log' = Emit(log, max_level, "Info", "IDT initialized")
    /\ pc' = "phys_offset"
    /\ UNCHANGED <<heap_size, heap_calls, allocator_locked,
                   memory_map, next, returned, phys_mem_offset, saved_pc,
                   max_level, idt_loads, mapper, fa_constructed, tables,
                   table_frames, mapped, page, frame, alloc_attempts,
                   map_attempts, ih_result, heap_inits, heap_allocs,
                   panic_msg, bp_count>>

\* boot_info.physical_memory_offset.into_option().unwrap()
UnwrapOffset ==
    /\ pc = "phys_offset"
    /\ IF phys_mem_offset = "Some"
       THEN pc' = "init_memory" /\ panic_msg' = panic_msg
       ELSE pc' = "panic" /\ panic_msg' = "called Option::unwrap() on a None value"
    /\ UNCHANGED <<heap_size, heap_calls, allocator_locked,
                   memory_map, next, returned, phys_mem_offset, saved_pc,
                   max_level, log, idt_loads, mapper, fa_constructed, tables,
                   table_frames, mapped, page, frame, alloc_attempts,
                   map_attempts, ih_result, heap_inits, heap_allocs,
                   bp_count>>

\* init_memory: the OffsetPageTable over the active level-4 table
InitMemory ==
    /\ pc = "init_memory"
    /\ mapper' = "derived"
    /\ pc' = "fa_init"
    /\ UNCHANGED <<heap_size, heap_calls, allocator_locked,
                   memory_map, next, returned, phys_mem_offset, saved_pc,
                   max_level, log, idt_loads, fa_constructed, tables,
                   table_frames, mapped, page, frame, alloc_attempts,
                   map_attempts, ih_result, heap_inits, heap_allocs,
                   panic_msg, bp_count>>

\* BootInfoFrameAllocator::init(&boot_info.memory_regions)
FrameAllocatorInit ==
    /\ pc = "fa_init"
    /\ fa_constructed' = TRUE
    /\ next' = 0
    /\ pc' = "init_heap"
    /\ UNCHANGED <<heap_size, heap_calls, allocator_locked,
                   memory_map, returned, phys_mem_offset, saved_pc,
                   max_level, log, idt_loads, mapper, tables, table_frames,
                   mapped, page, frame, alloc_attempts, map_attempts,
                   ih_result, heap_inits, heap_allocs, panic_msg, bp_count>>

\* init_heap: page_range is computed and the loop starts at its first page
\* (the observations of the call start afresh)
InitHeapEnter ==
    /\ pc = "init_heap"
    /\ page' = HeapStartPage
    /\ frame' = NoFrame
    /\ alloc_attempts' = 0
    /\ map_attempts' = 0
    /\ ih_result' = "none"
    /\ heap_calls' = Append(heap_calls, heap_size)
    /\ pc' = "heap_loop"
    /\ UNCHANGED <<memory_map, next, returned, phys_mem_offset, saved_pc,
                   max_level, log, idt_loads, mapper, fa_constructed, tables,
                   table_frames, mapped, heap_inits, heap_allocs, panic_msg,
                   bp_count, heap_size, allocator_locked>>

\* init_heap: for page in page_range { frame_allocator.allocate_frame().ok_or(..)?
HeapAllocateFrame ==
    /\ pc = "heap_loop"
    /\ IF page \in PageRange
       THEN LET f == UsableFramesNth(memory_map, next)
            IN  /\ frame' = f
                /\ next' = NextAfterAllocate(next)
                /\ alloc_attempts' = alloc_attempts + 1
                /\ IF f = NoFrame
                   THEN /\ pc' = EarlyReturn("FrameAllocationFailed").pc
                        /\ ih_result' = EarlyReturn("FrameAllocationFailed").result
                   ELSE /\ pc' = "heap_map"
                        /\ ih_result' = ih_result
       ELSE /\ pc' = "heap_allocator_init"
            /\ UNCHANGED <<frame, next, alloc_attempts, ih_result>>
    /\ UNCHANGED <<heap_size, heap_calls, allocator_locked,
                   memory_map, returned, phys_mem_offset, saved_pc,
                   max_level, log, idt_loads, mapper, fa_constructed, tables,
                   table_frames, mapped, page, map_attempts, heap_inits,
                   heap_allocs, panic_msg, bp_count>>

\* init_heap: mapper.map_to(page, frame, flags, frame_allocator)?.flush() }
HeapMapTo ==
    /\ pc = "heap_map"
    /\ LET r == MapTo(memory_map, page, frame, HeapFlags, tables, table_frames,
                      mapped, next)
       IN  /\ map_attempts' = map_attempts + 1
           /\ tables' = r.tables
           /\ table_frames' = r.table_frames
           /\ next' = r.next
           /\ mapped' = r.mapped
           /\ IF r.result = "Ok"
              THEN /\ page' = NextPage(page)
                   /\ pc' = "heap_loop"
                   /\ ih_result' = ih_result
              ELSE /\ page' = page
                   /\ pc' = EarlyReturn(r.result).pc
                   /\ ih_result' = EarlyReturn(r.result).result
    /\ UNCHANGED <<heap_size, heap_calls, allocator_locked,
                   memory_map, returned, phys_mem_offset, saved_pc,
                   max_level, log, idt_loads, mapper, fa_constructed, frame,
                   alloc_attempts, heap_inits, heap_allocs, panic_msg,
                   bp_count>>

\* init_heap: ALLOCATOR.lock(): spin until the lock is free, then hold it
AllocatorLock ==
    /\ pc = "heap_allocator_init"
    /\ SpinLockFree(allocator_locked)
    /\ allocator_locked' = TRUE
    /\ pc' = "heap_allocator_locked"
    /\ UNCHANGED <<memory_map, next, returned, phys_mem_offset, saved_pc,
                   max_level, log, idt_loads, mapper, fa_constructed, tables,
                   table_frames, mapped, page, frame, alloc_attempts,
                   map_attempts, ih_result, heap_inits, heap_allocs,
                   panic_msg, bp_count, heap_size, heap_calls>>

\* init_heap: .init(HEAP_START as *mut u8, HEAP_SIZE); the guard is dropped
AllocatorInit ==
    /\ pc = "heap_allocator_locked"
    /\ heap_inits' = heap_inits + 1
    /\ allocator_locked' = FALSE
    /\ pc' = "heap_log"
    /\ UNCHANGED <<memory_map, next, returned, phys_mem_offset, saved_pc,
                   max_level, log, idt_loads, mapper, fa_constructed, tables,
                   table_frames, mapped, page, frame, alloc_attempts,
                   map_attempts, ih_result, heap_allocs, panic_msg, bp_count,
                   heap_size, heap_calls>>

\* init_heap: info!("Heap initialized ..."); Ok(())
HeapLog ==
    /\ pc = "heap_log"
    /\ log' = Emit(log, max_level, "Info", "Heap initialized")
    /\ ih_result' = "Ok"
    /\ pc' = "heap_expect"
    /\ UNCHANGED <<heap_size, heap_calls, allocator_locked,
                   memory_map, next, returned, phys_mem_offset, saved_pc,
                   max_level, idt_loads, mapper, fa_constructed, tables,
                   table_frames, mapped, page, frame, alloc_attempts,
                   map_attempts, heap_inits, heap_allocs, panic_msg,
                   bp_count>>

\* init_heap(..).expect("Heap initialization failed")
HeapExpect ==
    /\ pc = "heap_expect"
    /\ IF ExpectPasses(ih_result)
       THEN pc' = "test_box" /\ panic_msg' = panic_msg
       ELSE pc' = "panic" /\ panic_msg' = "Heap initialization failed"
    /\ UNCHANGED <<heap_size, heap_calls, allocator_locked,
                   memory_map, next, returned, phys_mem_offset, saved_pc,
                   max_level, log, idt_loads, mapper, fa_constructed, tables,
                   table_frames, mapped, page, frame, alloc_attempts,
                   map_attempts, ih_result, heap_inits, heap_allocs,
                   bp_count>>

\* test_heap_allocation: Box::new(41) asks the global allocator, which locks
TestBoxLock ==
    /\ pc = "test_box"
    /\ SpinLockFree(allocator_locked)
    /\ allocator_locked' = TRUE
    /\ pc' = "test_box_alloc"
    /\ UNCHANGED <<memory_map, next, returned, phys_mem_offset, saved_pc,
                   max_level, log, idt_loads, mapper, fa_constructed, tables,
                   table_frames, mapped, page, frame, alloc_attempts,
                   map_attempts, ih_result, heap_inits, heap_allocs,
                   panic_msg, bp_count, heap_size, heap_calls>>

\* test_heap_allocation: the Box is allocated, the lock released;
\* info!("Heap value at ..")
TestBox ==
    /\ pc = "test_box_alloc"
    /\ heap_allocs' = heap_allocs + 1
    /\ allocator_locked' = FALSE
    /\ log' = Emit(log, max_level, "Info", "Heap value")
    /\ pc' = "test_vec"
    /\ UNCHANGED <<memory_map, next, returned, phys_mem_offset, saved_pc,
                   max_level, idt_loads, mapper, fa_constructed, tables,
                   table_frames, mapped, page, frame, alloc_attempts,
                   map_attempts, ih_result, heap_inits, panic_msg, bp_count,
                   heap_size, heap_calls>>

\* test_heap_allocation: vec.push asks the global allocator, which locks
TestVecLock ==
    /\ pc = "test_vec"
    /\ SpinLockFree(allocator_locked)
    /\ allocator_locked' = TRUE
    /\ pc' = "test_vec_alloc"
    /\ UNCHANGED <<memory_map, next, returned, phys_mem_offset, saved_pc,
                   max_level, log, idt_loads, mapper, fa_constructed, tables,
                   table_frames, mapped, page, frame, alloc_attempts,
                   map_attempts, ih_result, heap_inits, heap_allocs,
                   panic_msg, bp_count, heap_size, heap_calls>>

\* test_heap_allocation: the Vec of 0..10 is allocated, the lock released;
\* info!("Vector at ..")
TestVec ==
    /\ pc = "test_vec_alloc"
    /\ heap_allocs' = heap_allocs + 1
    /\ allocator_locked' = FALSE
    /\ log' = Emit(log, max_level, "Info", "Vector")
    /\ pc' = "init_log"
    /\ UNCHANGED <<memory_map, next, returned, phys_mem_offset, saved_pc,
                   max_level, idt_loads, mapper, fa_constructed, tables,
                   table_frames, mapped, page, frame, alloc_attempts,
                   map_attempts, ih_result, heap_inits, panic_msg, bp_count,
                   heap_size, heap_calls>>

\* alloc_error_handler: the allocator (an external collaborator) returns null,
\* the lock is released and the handler panics
AllocError ==
    /\ pc \in {"test_box_alloc", "test_vec_alloc"}
    /\ allocator_locked' = FALSE
    /\ panic_msg' = "allocation error"
    /\ pc' = "panic"
    /\ UNCHANGED <<memory_map, next, returned, phys_mem_offset, saved_pc,
                   max_level, log, idt_loads, mapper, fa_constructed, tables,
                   table_frames, mapped, page, frame, alloc_attempts,
                   map_attempts, ih_result, heap_inits, heap_allocs,
                   bp_count, heap_size, heap_calls>>

\* info!("Kernel initialized successfully!"), then the main loop
KernelInitialized ==
    /\ pc = "init_log"
    /\ log' = Emit(log, max_level, "Info", "Kernel initialized successfully!")
    /\ pc' = "idle"
    /\ UNCHANGED <<heap_size, heap_calls, allocator_locked,
                   memory_map, next, returned, phys_mem_offset, saved_pc,
                   max_level, idt_loads, mapper, fa_constructed, tables,
                   table_frames, mapped, page, frame, alloc_attempts,
                   map_attempts, ih_result, heap_inits, heap_allocs,
                   panic_msg, bp_count>>

\* panic(): error!("KERNEL PANIC: {}", info), then loop { hlt }
PanicHandler ==
    /\ pc = "panic"
    /\ HandlersUseAllocator => SpinLockFree(allocator_locked)
    /\ log' = Emit(log, max_level, "Error", panic_msg)
    /\ pc' = PanicLoop(saved_pc)
    /\ UNCHANGED <<heap_size, heap_calls, allocator_locked,
                   memory_map, next, returned, phys_mem_offset, saved_pc,
                   max_level, idt_loads, mapper, fa_constructed, tables,
                   table_frames, mapped, page, frame, alloc_attempts,
                   map_attempts, ih_result, heap_inits, heap_allocs,
                   panic_msg, bp_count>>

\* loop { x86_64::instructions::hlt() } of kernel_main and of panic()
HaltLoop ==
    /\ pc \in {"idle", "fatal_halt"}
    /\ pc' = pc
    /\ UNCHANGED <<heap_size, heap_calls, allocator_locked,
                   memory_map, next, returned, phys_mem_offset, saved_pc,
                   max_level, log, idt_loads, mapper, fa_constructed, tables,
                   table_frames, mapped, page, frame, alloc_attempts,
                   map_attempts, ih_result, heap_inits, heap_allocs,
                   panic_msg, bp_count>>

(* ---------------------------------------------------------------------- *)
(* Exceptions. The CPU dispatches through the table init_idt loaded, so an *)
(* exception reaches a handler of this kernel only once it is loaded. They *)
(* interrupt kernel_main (its idle loop included) and, for the double      *)
(* fault, the breakpoint handler; panic() and its halt loop are terminal.  *)
(* ---------------------------------------------------------------------- *)

\* a breakpoint exception (int3) is delivered: the CPU pushes the return address
\* and enters breakpoint_handler
Breakpoint ==
    /\ idt_loads > 0
    /\ pc \notin {"off", "panic", "fatal_halt", "bp_handler"}
    /\ bp_count < MaxBreakpoints
    /\ bp_count' = bp_count + 1
    /\ saved_pc' = pc
    /\ pc' = "bp_handler"
    /\ UNCHANGED <<heap_size, heap_calls, allocator_locked,
                   memory_map, next, returned, phys_mem_offset, max_level,
                   log, idt_loads, mapper, fa_constructed, tables,
                   table_frames, mapped, page, frame, alloc_attempts,
                   map_attempts, ih_result, heap_inits, heap_allocs,
                   panic_msg>>

\* breakpoint_handler: info!("EXCEPTION: BREAKPOINT ..."), then it returns
BreakpointHandler ==
    /\ pc = "bp_handler"
    /\ HandlersUseAllocator => SpinLockFree(allocator_locked)
    /\ log' = Emit(log, max_level, "Info", "EXCEPTION: BREAKPOINT")
    /\ pc' = BreakpointReturn(saved_pc)
    /\ saved_pc' = "none"
    /\ UNCHANGED <<heap_size, heap_calls, allocator_locked,
                   memory_map, next, returned, phys_mem_offset, max_level,
                   idt_loads, mapper, fa_constructed, tables, table_frames,
                   mapped, page, frame, alloc_attempts, map_attempts,
                   ih_result, heap_inits, heap_allocs, panic_msg, bp_count>>

\* a double fault is delivered: double_fault_handler calls panic!(..)
DoubleFault ==
    /\ idt_loads > 0
    /\ pc \notin {"off", "panic", "fatal_halt"}
    /\ panic_msg' = "EXCEPTION: DOUBLE FAULT"
    /\ saved_pc' = pc
    /\ pc' = "panic"
    /\ UNCHANGED <<heap_size, heap_calls, allocator_locked,
                   memory_map, next, returned, phys_mem_offset, max_level,
                   log, idt_loads, mapper, fa_constructed, tables,
                   table_frames, mapped, page, frame, alloc_attempts,
                   map_attempts, ih_result, heap_inits, heap_allocs,
                   bp_count>>

Next ==
    \/ Entry
    \/ InitLogger
    \/ BootLog
    \/ InitIdtLoad
    \/ InitIdtLog
    \/ UnwrapOffset
    \/ InitMemory
    \/ FrameAllocatorInit
    \/ InitHeapEnter
    \/ HeapAllocateFrame
    \/ HeapMapTo
    \/ AllocatorLock
    \/ AllocatorInit
    \/ HeapLog
    \/ HeapExpect
    \/ TestBoxLock
    \/ TestBox
    \/ TestVecLock
    \/ TestVec
    \/ AllocError
    \/ KernelInitialized
    \/ PanicHandler
    \/ HaltLoop
    \/ Breakpoint
    \/ BreakpointHandler
    \/ DoubleFault

Spec == Init /\ [][Next]_vars

\* the instructions of kernel_main, of what it calls and of the handlers; the
\* CPU goes on executing them, so they are taken with weak fairness, while
\* the delivery of an exception (Breakpoint, DoubleFault) is never forced
Flow ==
    \/ Entry
    \/ InitLogger
    \/ BootLog
    \/ InitIdtLoad
    \/ InitIdtLog
    \/ UnwrapOffset
    \/ InitMemory
    \/ FrameAllocatorInit
    \/ InitHeapEnter
    \/ HeapAllocateFrame
    \/ HeapMapTo
    \/ AllocatorLock
    \/ AllocatorInit
    \/ HeapLog
    \/ HeapExpect
    \/ TestBoxLock
    \/ TestBox
    \/ TestVecLock
    \/ TestVec
    \/ AllocError
    \/ KernelInitialized
    \/ PanicHandler
    \/ BreakpointHandler

FairSpec == Init /\ [][Next]_vars /\ WF_vars(Flow)

(* ---------------------------------------------------------------------- *)
(* Heap specification: init_heap run by a caller holding a mapper and a    *)
(* frame allocator, on any small memory map, with the size standing for    *)
(* HEAP_SIZE drawn from HeapSizes, and called again after it returned      *)
(* ---------------------------------------------------------------------- *)
\* Usable regions of whole frames, in any order, possibly overlapping
HeapRegions ==
    { [start |-> a * PAGE_SIZE, end |-> b * PAGE_SIZE, kind |-> "Usable"] :
        a \in 0..MaxHeapFrames, b \in 1..MaxHeapFrames }

HeapMaps ==
    UNION { [1..n -> { r \in HeapRegions : r.start < r.end }] : n \in 0..MaxHeapRegions }

\* heap sizes of one byte, one page, one page and a byte, two pages
HeapSizes == {1, PAGE_SIZE, PAGE_SIZE + 1, 2 * PAGE_SIZE}

InitHeapSpec ==
    /\ NotBooted
    /\ memory_map \in HeapMaps
    /\ phys_mem_offset = "Some"
    /\ tables \in InitialTables
    /\ mapped = {}
    /\ next = 0
    /\ returned = <<>>

\* a caller runs init_heap(&mut mapper, &mut frame_allocator), the first time
\* or again after the previous call returned and its result was taken
HeapCall ==
    /\ pc \in {"off", "heap_expect"}
    /\ Len(heap_calls) < MaxHeapCalls
    /\ heap_size' \in HeapSizes
    /\ mapper' = "derived"
    /\ fa_constructed' = TRUE
    /\ ih_result' = "none"
    /\ pc' = "init_heap"
    /\ UNCHANGED <<memory_map, next, returned, phys_mem_offset, saved_pc,
                   max_level, log, idt_loads, tables, table_frames, mapped,
                   page, frame, alloc_attempts, map_attempts,
                   heap_inits, heap_allocs, panic_msg, bp_count, heap_calls,
                   allocator_locked>>

NextHeap ==
    \/ HeapCall
    \/ InitHeapEnter
    \/ HeapAllocateFrame
    \/ HeapMapTo
    \/ AllocatorLock
    \/ AllocatorInit
    \/ HeapLog

SpecHeap == InitHeapSpec /\ [][NextHeap]_vars

(* ---------------------------------------------------------------------- *)
(* Claims about the frame allocator (checked under SpecFA)                 *)
(* ---------------------------------------------------------------------- *)
\* positions of the calls that returned Some(frame)
PresentCalls == { i \in 1..Len(returned) : returned[i] # NoFrame }

\* the Usable regions are listed in ascending address order and do not overlap
UsableAscendingDisjoint ==
    LET u == UsableRegions(memory_map)
    IN  \A i \in 1..Len(u) : \A j \in 1..Len(u) : i < j => u[i].end <= u[j].start

StrictlyIncreasing ==
    \A i \in PresentCalls : \A j \in PresentCalls : i < j => returned[i] < returned[j]

AllAligned == \A i \in PresentCalls : returned[i] % PAGE_SIZE = 0

PairwiseDistinct ==
    \A i \in PresentCalls : \A j \in PresentCalls : i # j => returned[i] # returned[j]

\* every region boundary of the map is a multiple of 4096: each region is a
\* whole number of frames and no partial chunk is involved
BoundariesAligned ==
    \A i \in 1..Len(memory_map) :
        memory_map[i].start % PAGE_SIZE = 0 /\ memory_map[i].end % PAGE_SIZE = 0

\* C1 as stated: for any list of regions (any order, any mix) the frames
\* returned by successive allocate_frame() calls are strictly increasing and
\* every one is a multiple of 4096. Taken here on the maps whose boundaries are
\* all 4096-aligned, where the count of frames per region is not in question.
C1_Original == BoundariesAligned => (StrictlyIncreasing /\ AllAligned)

\* C1 amended: every returned frame is a multiple of 4096 for any list of
\* regions, and the returned frames are strictly increasing when the Usable
\* regions are listed in ascending address order without overlapping.
C1_AlignedAndIncreasingWhenOrdered ==
    /\ AllAligned
    /\ UsableAscendingDisjoint => StrictlyIncreasing

\* C1 witness: two ordered Usable regions, the first starting off a frame
\* boundary, and three frames already returned.
C1_Witness ==
    /\ UsableAscendingDisjoint
    /\ Len(UsableRegions(memory_map)) = 2
    /\ UsableRegions(memory_map)[1].start % PAGE_SIZE # 0
    /\ RangeLen(UsableRegions(memory_map)[2]) > 0
    /\ Cardinality(PresentCalls) >= 2

\* C2 as stated: the cursor never decreases and no frame is returned twice,
\* also when Usable regions overlap, are out of address order or unaligned.
\* (The cursor has advanced once per call, so it is the number of calls.)
\* Taken here on the maps whose boundaries are all 4096-aligned.
C2_Original == BoundariesAligned => (next = Len(returned) /\ PairwiseDistinct)

\* C2 amended: the cursor never decreases (each call advances it by exactly
\* one), and the frames returned are pairwise distinct when the Usable regions
\* are listed in ascending address order without overlapping.
C2_CursorMonotoneDistinctWhenOrdered ==
    /\ [][next' = next + 1]_vars
    /\ [](next = Len(returned))
    /\ [](UsableAscendingDisjoint => PairwiseDistinct)

\* C2 witness: an ordered map whose frames have all been returned (two of
\* them) and a further call that found the allocator exhausted.
C2_Witness ==
    /\ UsableAscendingDisjoint
    /\ Cardinality(PresentCalls) >= 2
    /\ \E i \in 1..Len(returned) : returned[i] = NoFrame

\* C3: with a single Usable region of length L (and any Reserved regions),
\* exactly floor(L / 4096) calls return a frame; checked once the allocator
\* has reported exhaustion, when every frame it will ever return is counted.
C3_SingleRegionFloorCount ==
    (/\ Len(UsableRegions(memory_map)) = 1
     /\ \E i \in 1..Len(returned) : returned[i] = NoFrame)
    => Cardinality(PresentCalls) = RangeLen(UsableRegions(memory_map)[1]) \div PAGE_SIZE

\* C4: with N frames in the memory map, call i returns a frame exactly when
\* i <= N, every later call returns None, and the result of call i is the
\* frame at position i - 1 of the map's frame sequence (it depends on the map
\* and the number of prior calls only).
C4_ExhaustionAfterN ==
    \A i \in 1..Len(returned) :
        /\ (returned[i] # NoFrame) <=> (i <= UsableFramesCount(memory_map))
        /\ returned[i] = UsableFramesNth(memory_map, i - 1)

\* C4 witness: N >= 2 frames and at least N + 2 calls made.
C4_Witness ==
    /\ UsableFramesCount(memory_map) >= 2
    /\ Len(returned) >= UsableFramesCount(memory_map) + 2

(* ---------------------------------------------------------------------- *)
(* Claims about init_heap, kernel_main and the handlers (checked under     *)
(* Spec)                                                                   *)
(* ---------------------------------------------------------------------- *)
\* pages init_heap has mapped (the bootloader's own mappings are read-only)
HeapMappedPages == { m.page : m \in { x \in mapped : x.flags = HeapFlags } }

\* the first n pages of the heap range, in ascending order
FirstPages(n) == { HeapStartPage + i - 1 : i \in 1..n }

InitHeapFailed == ih_result \notin {"none", "Ok"}

\* init_heap failed in allocate_frame for a heap page (and not inside map_to):
\* one more frame was requested for a page than map_to calls were made
FailedAtPageAllocation ==
    /\ ih_result = "FrameAllocationFailed"
    /\ alloc_attempts = map_attempts + 1

DoubleFaultLine == [level |-> "Error", text |-> "EXCEPTION: DOUBLE FAULT"]
BreakpointLine == [level |-> "Info", text |-> "EXCEPTION: BREAKPOINT"]

LogHas(text) == \E i \in 1..Len(log) : log[i].text = text

\* the state of the interrupted flow other than its position and its output
flowVars ==
    <<memory_map, next, returned, phys_mem_offset, max_level, idt_loads, mapper,
      fa_constructed, tables, table_frames, mapped, page, frame, alloc_attempts,
      map_attempts, ih_result, heap_inits, heap_allocs, heap_size, heap_calls,
      allocator_locked>>

\* C5: ALLOCATOR.lock().init runs at most once and only with every page of the
\* heap range mapped; when init_heap returns an error it has not run at all,
\* and when init_heap returns Ok it has run exactly once.
C5_HeapInitOnlyWhenFullyMapped ==
    /\ heap_inits <= 1
    /\ heap_inits = 1 => (PageRange \subseteq HeapMappedPages /\ ~InitHeapFailed)
    /\ InitHeapFailed => heap_inits = 0
    /\ ih_result = "Ok" => heap_inits = 1

\* C5 witness: init_heap returned Ok after initializing the allocator once.
C5_Witness == ih_result = "Ok" /\ heap_inits = 1 /\ pc = "test_box"

\* C6: when allocate_frame fails for the k-th page of the range, init_heap
\* returns a failure, exactly pages 1..k-1 are mapped by it from then on (no
\* rollback), and no allocation or mapping is attempted for page k..last.
C6_FailureAtKthPageKeepsEarlierPages ==
    FailedAtPageAllocation =>
        /\ HeapMappedPages = FirstPages(alloc_attempts - 1)
        /\ page = HeapStartPage + alloc_attempts - 1
        /\ map_attempts = alloc_attempts - 1
        /\ heap_inits = 0

\* C6 witness: allocation failed at the third page and the kernel has halted
\* with the first two pages still mapped.
C6_Witness ==
    /\ FailedAtPageAllocation
    /\ alloc_attempts = 3
    /\ pc = "fatal_halt"
    /\ Cardinality(HeapMappedPages) = 2

\* C7: the IDT is loaded exactly once, and before the page table manager is
\* derived, before the frame allocator is constructed and before any heap page
\* is allocated or mapped: fault table, then memory/paging, then heap.
C7_IdtLoadedOnceBeforeMemoryAndHeap ==
    /\ idt_loads <= 1
    /\ (mapper = "derived" \/ pc \in {"idle", "fatal_halt"}) => idt_loads = 1
    /\ fa_constructed => mapper = "derived"
    /\ (alloc_attempts > 0 \/ map_attempts > 0 \/ HeapMappedPages # {} \/ next > 0
        \/ heap_inits > 0) => fa_constructed

\* C7 witness: heap pages are being mapped with the IDT loaded once.
C7_Witness ==
    /\ idt_loads = 1
    /\ mapper = "derived"
    /\ fa_constructed
    /\ Cardinality(HeapMappedPages) = 2

\* C8: once init_heap has failed, kernel_main only panics: it prints a
\* diagnostic and halts, never runs test_heap_allocation, never logs "Kernel
\* initialized successfully!", and never leaves the halt loop.
C8_HeapFailureHalts ==
    /\ [](InitHeapFailed =>
            /\ heap_allocs = 0
            /\ ~LogHas("Heap value") /\ ~LogHas("Vector")
            /\ ~LogHas("Kernel initialized successfully!")
            /\ pc \in {"heap_expect", "bp_handler", "panic", "fatal_halt"}
            /\ pc = "bp_handler" => saved_pc = "heap_expect"
            /\ pc = "fatal_halt" =>
                 /\ log[Len(log)].level = "Error"
                 /\ log[Len(log)].text = panic_msg
                 /\ panic_msg \in {"Heap initialization failed",
                                   "EXCEPTION: DOUBLE FAULT"})
    /\ [][(InitHeapFailed /\ pc = "fatal_halt") => (pc' = "fatal_halt" /\ log' = log)]_vars

\* C8 witness: halted after the "Heap initialization failed" diagnostic.
C8_Witness ==
    /\ InitHeapFailed
    /\ pc = "fatal_halt"
    /\ log[Len(log)] = [level |-> "Error", text |-> "Heap initialization failed"]

\* C9: a delivered double fault makes its handler print one diagnostic line
\* and never return: the kernel goes to the fatal halt and stays, prints
\* nothing more, and the interrupted code never runs again.
C9_DoubleFaultIsTerminal ==
    /\ [](panic_msg = "EXCEPTION: DOUBLE FAULT" =>
            /\ pc \in {"panic", "fatal_halt"}
            /\ pc = "fatal_halt" =>
                 /\ log[Len(log)] = DoubleFaultLine
                 /\ Cardinality({ i \in 1..Len(log) : log[i] = DoubleFaultLine }) = 1)
    /\ [][panic_msg = "EXCEPTION: DOUBLE FAULT" =>
            /\ UNCHANGED flowVars
            /\ panic_msg' = panic_msg
            /\ pc = "panic" => (pc' = "fatal_halt" /\ log' = Append(log, DoubleFaultLine))
            /\ pc = "fatal_halt" => (pc' = "fatal_halt" /\ log' = log)]_vars

\* C9 witness: halted by a double fault delivered while a heap page was
\* about to be mapped.
C9_Witness ==
    /\ panic_msg = "EXCEPTION: DOUBLE FAULT"
    /\ pc = "fatal_halt"
    /\ saved_pc = "heap_map"
    /\ log[Len(log)] = DoubleFaultLine

\* C10: a breakpoint leaves the interrupted flow as it was; its handler
\* appends exactly its diagnostic line after the lines printed before the
\* trigger and returns to the interrupted position, so the lines printed
\* afterwards follow it; output is only ever appended.
C10_BreakpointReturnsInOrder ==
    /\ [](pc = "bp_handler" => saved_pc \notin {"none", "off", "bp_handler", "panic", "fatal_halt"})
    /\ [][(pc # "bp_handler" /\ pc' = "bp_handler") =>
            (saved_pc' = pc /\ log' = log /\ UNCHANGED flowVars)]_vars
    /\ [][(pc = "bp_handler" /\ pc' # "bp_handler") =>
            \/ pc' = "panic" /\ panic_msg' = "EXCEPTION: DOUBLE FAULT"
            \/ /\ pc' = saved_pc
               /\ log' = Append(log, BreakpointLine)
               /\ UNCHANGED <<flowVars, panic_msg>>]_vars
    /\ [][Len(log') >= Len(log) /\ SubSeq(log', 1, Len(log)) = log]_vars

\* C10 witness: the breakpoint line stands between "IDT initialized" (before)
\* and "Heap initialized" (after) in the output.
C10_Witness ==
    \E i \in 2..(Len(log) - 1) :
        /\ log[i - 1].text = "IDT initialized"
        /\ log[i] = BreakpointLine
        /\ log[i + 1].text = "Heap initialized"

(* ---------------------------------------------------------------------- *)
(* Claims about init_heap's pages, frames and failures                     *)
(* ---------------------------------------------------------------------- *)
\* pages of a heap of S bytes that starts on a page boundary: ceil(S / 4096)
NumPages(S) == (S + PAGE_SIZE - 1) \div PAGE_SIZE

\* C11: an init_heap that returned Ok(()) made exactly ceil(S/4096) calls of
\* allocate_frame for heap pages and exactly as many calls of map_to (25 of
\* each for the 100 KiB heap); the k-th call of either kind is for the k-th
\* page of the range, and each page's mapping attempt follows its frame
\* allocation before the next page is taken up.
C11_OneAttemptPerPageAscending ==
    /\ [](ih_result = "Ok" =>
            /\ alloc_attempts = NumPages(heap_size)
            /\ map_attempts = NumPages(heap_size))
    /\ [](ih_result = "Ok" /\ heap_size = 100 * 1024 =>
            alloc_attempts = 25 /\ map_attempts = 25)
    /\ [][alloc_attempts' = alloc_attempts + 1 =>
            page = HeapStartPage + alloc_attempts /\ map_attempts = alloc_attempts]_vars
    /\ [][map_attempts' = map_attempts + 1 =>
            page = HeapStartPage + map_attempts /\ alloc_attempts = map_attempts + 1]_vars

\* C11 witness: the 100 KiB heap was set up with 25 attempts of each kind,
\* the loop having walked the 25 pages to the end of the range.
C11_Witness ==
    /\ ih_result = "Ok"
    /\ heap_size = HEAP_SIZE
    /\ alloc_attempts = 25
    /\ map_attempts = 25
    /\ page = HeapStartPage + 25
    /\ heap_inits = 1

\* the memory map of the end-to-end scenario: one Usable region of two frames
TwoFrameMap == << [start |-> 0, end |-> 2 * PAGE_SIZE, kind |-> "Usable"] >>

\* frames the allocator can still hand out
FramesLeft ==
    IF next < UsableFramesCount(memory_map) THEN UsableFramesCount(memory_map) - next ELSE 0

\* init_heap calls made so far have returned
Returned == pc = "heap_expect"

FailedAtTableAllocation ==
    /\ InitHeapFailed
    /\ alloc_attempts = map_attempts
    /\ \E i \in 1..3 : TablePath(page)[i] \notin tables

\* C13: the value init_heap returns when map_to could not get a frame for an
\* intermediate table differs from the value it returns when no frame is
\* left for a heap page (the out-of-memory error FrameAllocationFailed).
C13_TableFailureDistinctFromOutOfMemory ==
    /\ FailedAtPageAllocation => ih_result = "FrameAllocationFailed"
    /\ FailedAtTableAllocation => ih_result # "FrameAllocationFailed"

\* the pages that hold a byte of [HEAP_START, HEAP_START + heap_size - 1]
CoveringPages ==
    { p \in 0..((HEAP_START + heap_size) \div PAGE_SIZE + 1) :
        /\ p * PAGE_SIZE <= HEAP_START + heap_size - 1
        /\ (p + 1) * PAGE_SIZE > HEAP_START }

\* C14: once init_heap has returned Ok(()), the pages it mapped are exactly
\* the pages holding a byte of [HEAP_START, HEAP_START + HEAP_SIZE - 1] (25
\* pages for the 100 KiB heap), each with flags PRESENT | WRITABLE; and no
\* step of init_heap, in a run that succeeds or fails, installs a
\* translation for a page outside that range or with other flags.
C14_MappedExactlyHeapRange ==
    /\ [](ih_result = "Ok" =>
            /\ MappedPages = CoveringPages
            /\ Cardinality(mapped) = Cardinality(CoveringPages)
            /\ \A m \in mapped : m.flags = {"PRESENT", "WRITABLE"})
    /\ [](ih_result = "Ok" /\ heap_size = 100 * 1024 =>
            /\ Cardinality(MappedPages) = 25
            /\ MappedPages = HeapStartPage..(HeapStartPage + 24))
    /\ [][\A m \in mapped' \ mapped :
            m.page \in CoveringPages /\ m.flags = {"PRESENT", "WRITABLE"}]_vars

\* C14 witness: init_heap returned Ok(()) with the 25 pages mapped.
C14_Witness ==
    /\ ih_result = "Ok"
    /\ pc = "heap_expect"
    /\ Cardinality(mapped) = 25
    /\ \A p \in CoveringPages : \E m \in mapped : m.page = p

\* a page has one translation, two pages never share a frame, and no frame
\* of a mapped page is a frame map_to took for a page table
HeapFramesExclusive ==
    /\ \A m1 \in mapped : \A m2 \in mapped : m1.page = m2.page => m1 = m2
    /\ \A m \in mapped : m.frame # NoFrame
    /\ \A m1 \in mapped : \A m2 \in mapped : m1.page # m2.page => m1.frame # m2.frame
    /\ \A m \in mapped : m.frame \notin table_frames

\* C15 as stated: in every state during or after init_heap, for any memory
\* map, each mapped heap page has exactly one frame, distinct heap pages have
\* distinct frames, and no heap page's frame is a page-table frame.
C15_Original == HeapFramesExclusive

\* C15 (amended): the same, when the Usable regions of the memory map are
\* listed in ascending address order and do not overlap.
C15_FramesExclusiveWhenOrdered == UsableAscendingDisjoint => HeapFramesExclusive

\* C15 witness: on an ordered map, two heap pages are mapped by a call that
\* has returned Ok(()).
C15_Witness ==
    /\ UsableAscendingDisjoint
    /\ ih_result = "Ok"
    /\ Cardinality(MappedPages) = 2
    /\ Cardinality({ m.frame : m \in mapped }) = 2

(* ---------------------------------------------------------------------- *)
(* Claim about the extent of the frames handed out (checked under SpecFA)  *)
(* ---------------------------------------------------------------------- *)
\* the frame at addr lies, whole, inside one Usable region of the map
InsideUsableRegion(addr) ==
    LET u == UsableRegions(memory_map)
    IN  \E i \in 1..Len(u) : u[i].start <= addr /\ addr + PAGE_SIZE <= u[i].end

\* C16: for every frame allocate_frame() returned, the extent
\* [addr, addr + 4096) is contained in [start, end) of a Usable region of
\* the memory map, whatever the alignment and number of the regions.
C16_ReturnedFramesInsideUsable ==
    \A i \in PresentCalls : InsideUsableRegion(returned[i])

(* ---------------------------------------------------------------------- *)
(* Claims about termination and the allocator lock                         *)
(* ---------------------------------------------------------------------- *)
HaltLoops == {"idle", "fatal_halt"}

\* what panic() can have been called with
PanicCauses ==
    { "called Option::unwrap() on a None value", "Heap initialization failed",
      "allocation error", "EXCEPTION: DOUBLE FAULT" }

\* C17: every execution of kernel_main, with the exceptions delivered to it
\* finite in number, ends up in a halt loop for good: the idle loop, entered
\* only after "Kernel initialized successfully!" was logged, or the halt loop
\* of panic(), entered only for one of the four panic causes; wherever no
\* instruction of the kernel can be executed next, it is in one of the two
\* halt loops (no other terminal state, no step that blocks).
C17_EventuallyHaltsForever ==
    /\ <>[](pc \in HaltLoops)
    /\ [](pc = "idle" => LogHas("Kernel initialized successfully!"))
    /\ [](pc = "fatal_halt" =>
            /\ panic_msg \in PanicCauses
            /\ log # <<>>
            /\ log[Len(log)] = [level |-> "Error", text |-> panic_msg])
    /\ [](pc \notin HaltLoops => ENABLED <<Flow>>_vars)

\* C17 witness: the kernel idles after a complete boot.
C17_Witness ==
    /\ pc = "idle"
    /\ LogHas("Kernel initialized successfully!")
    /\ heap_allocs > 0
    /\ panic_msg \notin PanicCauses

\* positions of the normal flow at which it holds the ALLOCATOR lock
LockHeld == {"heap_allocator_locked", "test_box_alloc", "test_vec_alloc"}

\* positions inside breakpoint_handler, and inside panic() as entered from
\* double_fault_handler or from the flow
InHandler == {"bp_handler", "panic"}

\* C18: the heap allocator is only touched by a step that holds its lock,
\* the lock is taken only when it is free and only by the normal flow, and
\* released only by its holder; breakpoint_handler and double_fault_handler
\* (with panic()) never take or release it, so a handler entered while the
\* flow holds the lock is never waiting for it: its step can always be taken.
C18_LockExclusiveHandlersNeverSpin ==
    /\ [](pc \in LockHeld => allocator_locked)
    /\ [](pc \notin LockHeld \cup InHandler \cup {"fatal_halt"} => ~allocator_locked)
    /\ [][(heap_inits' # heap_inits \/ heap_allocs' # heap_allocs) =>
            allocator_locked /\ pc \in LockHeld]_vars
    /\ [][(pc' \in LockHeld /\ pc \notin LockHeld \cup InHandler) =>
            ~allocator_locked /\ allocator_locked']_vars
    /\ [][(pc \in InHandler) => UNCHANGED allocator_locked]_vars
    /\ [](pc = "bp_handler" => ENABLED BreakpointHandler)
    /\ [](pc = "panic" => ENABLED PanicHandler)

\* C18 witness: a breakpoint was delivered while init_heap held the lock;
\* its handler has printed its line and returned, the lock still held.
C18_Witness ==
    /\ pc = "heap_allocator_locked"
    /\ allocator_locked
    /\ bp_count = 1
    /\ log # <<>>
    /\ log[Len(log)] = BreakpointLine

====
